---- MODULE Spec2Model ----
(***************************************************************************)
(* A model of pgclientlib::session (src/pgclientlib.hpp): the session      *)
(* state machine of a synchronous PostgreSQL v3 client.                    *)
(*                                                                         *)
(* The variables are the data members of the class, the position of the    *)
(* API call in progress (the calls block in get_reply(), so a call is a    *)
(* sequence of steps, one per server message read), and a record of what   *)
(* the call read and wrote on the transport.                               *)
(*                                                                         *)
(* Bytes are numbers 0..255, buffers and strings are sequences of bytes.   *)
(***************************************************************************)
EXTENDS Integers, Sequences, FiniteSets, TLC

VARIABLES
    socket,         \* the transport: "closed", "open" (not connected), "connected"
    state,          \* session_state
    ts,             \* transaction_status
    pid,            \* cancellation key: process id
    skey,           \* cancellation key: secret key
    buf_fmt,        \* buffer_format
    notifications,  \* std::queue<std::string>
    row_queue,      \* std::queue<buffer_type>
    field_map,      \* vector of (name, field_descriptor)
    pars,           \* parameter_map, as a set of <<key, value>> pairs
    stack,          \* the frames of the call in progress that wait in get_reply()
    call,           \* the API call in progress, or the last one
    outcome,        \* "none", "running", "returned", "threw"
    rx,             \* the server messages the call has read, in order
    sent,           \* the client messages the call wrote to the session's socket
    sent_other,     \* the bytes the call wrote to another socket (cancel)
    result,         \* the value the last call returned: <<>> or <<value>>
    error,          \* what() of the exception the last call threw, or <<>>
    unread          \* payload bytes of the last message read that were left on the transport

vars == <<socket, state, ts, pid, skey, buf_fmt, notifications, row_queue, field_map, pars, stack, call, outcome, rx, sent, sent_other, result, error, unread>>

(***************************************************************************)
(* Bounds of the model.                                                    *)
(***************************************************************************)
\* the server sends at most this many messages in answer to one call: under
\* Spec, under SpecStartup and under SpecQuery
MaxRx == 2

MaxRxStartup == 5

MaxRxQuery == 3

\* ... and under SpecFifo
MaxRxFifo == 3

\* the strings the caller passes under SpecMsgs are no longer than this
MaxLen == 2

\* deliveries that would make the notification queue longer are not explored
MaxNotifications == 2

\* deliveries that would make the row queue longer are not explored
MaxRows == 2

\* ... and under SpecCopyOut: a CopyOutResponse, the rows, CopyDone,
\* CommandComplete, ReadyForQuery
MaxRxCopyOut == MaxRows + 4

(***************************************************************************)
(* Characters the code compares with.                                      *)
(***************************************************************************)
chS == 83
chM == 77
chI == 73
chT == 84
chE == 69
chColon == 58
chSpace == 32
chDot == 46

\* the literal "[Empty request]"
EmptyRequestStr == <<91, 69, 109, 112, 116, 121, 32, 114, 101, 113, 117, 101, 115, 116, 93>>

(***************************************************************************)
(* boost::endian::big_int32_t / big_int16_t on the wire.                   *)
(***************************************************************************)
BE32(n) == <<(n \div 16777216) % 256, (n \div 65536) % 256, (n \div 256) % 256, n % 256>>

BE16(n) == <<(n \div 256) % 256, n % 256>>

FromBE32(b) == ((b[1] * 256 + b[2]) * 256 + b[3]) * 256 + b[4]

FromBE16(b) == b[1] * 256 + b[2]

(***************************************************************************)
(* The session's data members as one record, for the operators below.      *)
(***************************************************************************)
Sess == [state |-> state, ts |-> ts, pid |-> pid, skey |-> skey, buf_fmt |-> buf_fmt, notifications |-> notifications, row_queue |-> row_queue, field_map |-> field_map, pars |-> pars]

\* no exception
NoError == <<>>

\* an exception of asio (asio::write, asio::read, connect, resolve)
AsioError == <<"asio::system_error">>

\* std::runtime_error(what)
RuntimeError(what) == <<what>>

\* the result of a step that returns normally, and of one that throws
Returns(s) == [s |-> s, thrown |-> FALSE, what |-> NoError]

Throws(s, what) == [s |-> s, thrown |-> TRUE, what |-> what]

not_ready(s) == s.state # "ready_for_query"

ready(s) == s.state = "ready_for_query"

is_error(msg) == msg.code = "E"

(***************************************************************************)
(* Parsers of server payloads.                                             *)
(***************************************************************************)
\* the position of the first NUL of buf at or after position j
\* (std::find(..., '\0'), and the loops "while (*++i)")
FirstNul(buf, j) == CHOOSE k \in j..Len(buf) : buf[k] = 0 /\ \A l \in j..(k - 1) : buf[l] # 0

RECURSIVE notification_fields(_, _, _)
\* the loop of parse_notifications: i is the position of a field tag, ss
\* the stringstream so far
notification_fields(buf, i, ss) ==
    IF buf[i] = 0 THEN ss
    ELSE LET k == FirstNul(buf, i + 1)
             v == SubSeq(buf, i + 1, k - 1)
         IN  notification_fields(buf, k + 1,
                 CASE buf[i] = chM -> ss \o <<chColon, chSpace>> \o v
                   [] buf[i] = chS -> ss \o v
                   [] OTHER -> ss)

\* parse_notifications: nothing is pushed for an empty buffer
parse_notifications(s, buf) ==
    IF Len(buf) = 0 THEN s
    ELSE [s EXCEPT !.notifications = Append(@, notification_fields(buf, 1, <<>>))]

\* pars[key] = value
SetPar(p, key, value) == {kv \in p : kv[1] # key} \cup {<<key, value>>}

parse_params(s, buf) ==
    IF Len(buf) = 0 THEN s
    ELSE LET k1 == FirstNul(buf, 1)
             k2 == FirstNul(buf, k1 + 1)
         IN  [s EXCEPT !.pars = SetPar(@, SubSeq(buf, 1, k1 - 1), SubSeq(buf, k1 + 1, k2 - 1))]

\* memcpy of 18 bytes onto field_descriptor
field_descriptor(b) == [table_oid |-> FromBE32(SubSeq(b, 1, 4)), column_no |-> FromBE16(SubSeq(b, 5, 6)), data_type |-> FromBE32(SubSeq(b, 7, 10)), type_size |-> FromBE16(SubSeq(b, 11, 12)), type_modf |-> FromBE32(SubSeq(b, 13, 16)), frmt_code |-> FromBE16(SubSeq(b, 17, 18))]

RECURSIVE row_description_fields(_, _, _, _)
\* the loop "while (nfields--)" of case 'T'
row_description_fields(buf, start_pos, nfields, fm) ==
    IF nfields = 0 THEN fm
    ELSE LET first_null == FirstNul(buf, start_pos)
             field_name == SubSeq(buf, start_pos, first_null - 1)
             fd == field_descriptor(SubSeq(buf, first_null + 1, first_null + 18))
         IN  row_description_fields(buf, first_null + 18 + 1, nfields - 1, Append(fm, <<field_name, fd>>))

(***************************************************************************)
(* process_reply: one operator per case of the switch.  Each takes the     *)
(* session and the payload and gives the session after the case and        *)
(* whether the case threw.                                                 *)
(***************************************************************************)
clear_row_queue(s) == [s EXCEPT !.row_queue = <<>>]

\* buf2str keeps every byte of the payload
buf2str(buf) == buf

\* buf[0] ? copy_binary : copy_text
copy_format(buf) == IF buf[1] # 0 THEN "copy_binary" ELSE "copy_text"

reply_A(s, buf) == Returns(parse_notifications(s, buf))

\* a CommandComplete that makes the session ready
reply_C_ready(s, buf) == Returns([s EXCEPT !.notifications = Append(@, buf), !.state = "ready_for_query"])

reply_C(s, buf) == Returns([s EXCEPT !.notifications = Append(@, buf2str(buf)), !.state = "complete"])

reply_c(s, buf) == Returns([s EXCEPT !.state = "copy_done"])

\* a DataRow that goes to the front of the queue
reply_D_front(s, buf) == Returns([s EXCEPT !.row_queue = <<buf>> \o @])

reply_D(s, buf) == Returns([s EXCEPT !.row_queue = Append(@, buf)])

reply_d(s, buf) == Returns([s EXCEPT !.row_queue = Append(@, buf)])

reply_E(s, buf) == Returns(parse_notifications(s, buf))

reply_G(s, buf) == Returns([s EXCEPT !.buf_fmt = copy_format(buf), !.state = "copy_in"])

\* a CopyOutResponse that keeps the rows in the queue
reply_H_keeps_rows(s, buf) == Returns([s EXCEPT !.buf_fmt = copy_format(buf), !.state = "copy_out"])

reply_H(s, buf) == Returns(clear_row_queue([s EXCEPT !.buf_fmt = copy_format(buf), !.state = "copy_out"]))

reply_I(s, buf) == Returns([s EXCEPT !.notifications = Append(@, EmptyRequestStr)])

reply_K(s, buf) == Returns([s EXCEPT !.pid = FromBE32(SubSeq(buf, 1, 4)), !.skey = FromBE32(SubSeq(buf, 5, 8))])

reply_N(s, buf) == Returns(parse_notifications(s, buf))

\* a session that accepts every authentication sub-code
auth_refused_never(auth_code) == FALSE

\* if (auth_code) throw
auth_refused(auth_code) == auth_code # 0

\* case 'R' up to its get_reply(): the rest of the case is the frames
\* "auth" and "auth_loop" below
reply_R(s, buf) == IF auth_refused(FromBE32(SubSeq(buf, 1, 4))) THEN Throws(s, RuntimeError("Autentication mode not supported")) ELSE Returns(s)

reply_S(s, buf) == Returns(parse_params(s, buf))

\* a RowDescription that keeps the fields of the one before
reply_T_keeps_fields(s, buf) == Returns(clear_row_queue([s EXCEPT !.field_map = row_description_fields(buf, 3, FromBE16(SubSeq(buf, 1, 2)), @), !.buf_fmt = "query"]))

reply_T(s, buf) == Returns(clear_row_queue([s EXCEPT !.field_map = row_description_fields(buf, 3, FromBE16(SubSeq(buf, 1, 2)), <<>>), !.buf_fmt = "query"]))

\* a ReadyForQuery that sets the state before it looks at the status byte
reply_Z_state_first(s, buf) ==
    CASE buf[1] = chI -> Returns([s EXCEPT !.ts = "idle", !.state = "ready_for_query"])
      [] buf[1] = chT -> Returns([s EXCEPT !.ts = "active", !.state = "ready_for_query"])
      [] buf[1] = chE -> Returns([s EXCEPT !.ts = "error", !.state = "ready_for_query"])
      [] OTHER -> Throws([s EXCEPT !.state = "ready_for_query"], RuntimeError("Invalid transaction status"))

reply_Z(s, buf) ==
    CASE buf[1] = chI -> Returns([s EXCEPT !.ts = "idle", !.state = "ready_for_query"])
      [] buf[1] = chT -> Returns([s EXCEPT !.ts = "active", !.state = "ready_for_query"])
      [] buf[1] = chE -> Returns([s EXCEPT !.ts = "error", !.state = "ready_for_query"])
      [] OTHER -> Throws(s, RuntimeError("Invalid transaction status"))

\* "Cannot handle server message with code '" << msg.code << "'"
cannot_handle(code) == <<"Cannot handle server message with code", code>>

\* default: read_remaining, then throw
reply_default(s, code, buf) == Throws(s, cannot_handle(code))

\* server_message_header::unread_bytes
unread_bytes(msg) == msg.length - 4

\* a default case that throws before it reads the payload
default_reads_nothing(msg) == 0

\* the payload bytes the default case reads: read_remaining(msg)
default_reads(msg) == unread_bytes(msg)

\* the payload bytes process_reply reads for msg: read<T>() in the cases
\* 'K' (pid, skey), 'R' (auth_code) and 'Z' (status), read_remaining(msg)
\* in the others
payload_read(msg) ==
    CASE msg.code = "K" -> 8
      [] msg.code = "R" -> 4
      [] msg.code = "Z" -> 1
      [] msg.code \in {"A", "C", "c", "D", "d", "E", "G", "H", "I", "N", "S", "T"} -> unread_bytes(msg)
      [] OTHER -> default_reads(msg)

process_reply(s, msg) ==
    CASE msg.code = "A" -> reply_A(s, msg.buf)
      [] msg.code = "C" -> reply_C(s, msg.buf)
      [] msg.code = "c" -> reply_c(s, msg.buf)
      [] msg.code = "D" -> reply_D(s, msg.buf)
      [] msg.code = "d" -> reply_d(s, msg.buf)
      [] msg.code = "E" -> reply_E(s, msg.buf)
      [] msg.code = "G" -> reply_G(s, msg.buf)
      [] msg.code = "H" -> reply_H(s, msg.buf)
      [] msg.code = "I" -> reply_I(s, msg.buf)
      [] msg.code = "K" -> reply_K(s, msg.buf)
      [] msg.code = "N" -> reply_N(s, msg.buf)
      [] msg.code = "R" -> reply_R(s, msg.buf)
      [] msg.code = "S" -> reply_S(s, msg.buf)
      [] msg.code = "T" -> reply_T(s, msg.buf)
      [] msg.code = "Z" -> reply_Z(s, msg.buf)
      [] OTHER -> reply_default(s, msg.code, msg.buf)

(***************************************************************************)
(* row_to_strings: the strings of a row under a buffer format.  The result *)
(* is the strings, a throw, or undefined when the code reads outside rr.   *)
(***************************************************************************)
isprint(x) == x >= 32 /\ x <= 126

\* std::isprint(x) ? x : '.'
printable(x) == IF isprint(x) THEN x ELSE chDot

\* the value of a big_int32_t whose first byte has the sign bit set
SignedBE32(b) == (((b[1] - (IF b[1] >= 128 THEN 256 ELSE 0)) * 256 + b[2]) * 256 + b[3]) * 256 + b[4]

\* the value of a big_int16_t
Signed16(n) == IF n >= 32768 THEN n - 65536 ELSE n

RECURSIVE row_fields(_, _, _, _, _, _)
\* the loop "for (int j = 0; j != n; ++j)" of case buffer_format::query:
\* j is the index of the field (from 0), i the position of its size in rr
row_fields(fm, rr, n, j, i, res) ==
    IF j = n THEN [kind |-> "strings", res |-> res]
    ELSE IF i + 3 > Len(rr) THEN [kind |-> "undefined", res |-> <<>>]
    ELSE LET sz == SignedBE32(SubSeq(rr, i, i + 3))
             bytes == SubSeq(rr, i + 4, i + 3 + sz)
         IN  IF sz < 0 THEN row_fields(fm, rr, n, j + 1, i + 4, Append(res, <<>>))
             ELSE IF j >= Len(fm) THEN [kind |-> "throws", res |-> <<>>, what |-> <<"std::out_of_range">>]
             ELSE IF i + 3 + sz > Len(rr) THEN [kind |-> "undefined", res |-> <<>>]
             ELSE IF fm[j + 1][2].frmt_code # 0
                  THEN row_fields(fm, rr, n, j + 1, i + 4 + sz, Append(res, [k \in 1..sz |-> printable(bytes[k])]))
                  ELSE row_fields(fm, rr, n, j + 1, i + 4 + sz, Append(res, bytes))

row_to_strings(fmt, fm, rr) ==
    CASE fmt = "query" ->
           IF Len(rr) <= 2 THEN [kind |-> "undefined", res |-> <<>>]
           ELSE row_fields(fm, rr, Signed16(FromBE16(SubSeq(rr, 1, 2))), 0, 3, <<>>)
      [] fmt = "copy_text" -> [kind |-> "strings", res |-> <<rr>>]
      [] fmt = "copy_binary" -> [kind |-> "strings", res |-> <<[k \in 1..Len(rr) |-> printable(rr[k])]>>]
      [] OTHER -> [kind |-> "throws", res |-> <<>>, what |-> RuntimeError("Unknown buffer format")]

(***************************************************************************)
(* The frames of a call that wait in get_reply().                          *)
(*   "startup"    startup():  process_reply(get_reply()); return ready()   *)
(*   "query"      query(): the loop of handle_replies()                    *)
(*   "auth"       case 'R': auth_msg = get_reply(); process_reply(auth_msg)*)
(*   "auth_loop"  case 'R': the loop of its handle_replies()               *)
(***************************************************************************)
\* handle_replies() on entry: whether it goes on to read a reply
handle_replies_reads(s) == s.state # "copy_in" /\ not_ready(s)

\* a loop that also stops at CommandComplete
loop_reads_until_complete(s) == not_ready(s) /\ s.state # "complete"

\* handle_replies() after a reply: while (not_ready())
loop_reads(s) == not_ready(s)

Pop(stk) == SubSeq(stk, 1, Len(stk) - 1)

RECURSIVE return_to(_, _, _)
\* process_reply(msg) has returned to the frame on top of stk; err is
\* is_error(msg).  Gives the frames that wait next (none: the call is
\* over) and whether the frame threw.
return_to(stk, s, err) ==
    LET top == stk[Len(stk)]
    IN  CASE top = "startup" -> [stack |-> <<>>, thrown |-> FALSE, what |-> NoError]
          [] top = "query" -> [stack |-> IF loop_reads(s) THEN stk ELSE <<>>, thrown |-> FALSE, what |-> NoError]
          [] top = "auth" ->
               IF err THEN [stack |-> <<>>, thrown |-> TRUE, what |-> RuntimeError("Error in startup; cannot continue")]
               ELSE IF handle_replies_reads(s) THEN [stack |-> Append(Pop(stk), "auth_loop"), thrown |-> FALSE, what |-> NoError]
               ELSE return_to(Pop(stk), s, FALSE)
          [] top = "auth_loop" ->
               IF loop_reads(s) THEN [stack |-> stk, thrown |-> FALSE, what |-> NoError]
               ELSE return_to(Pop(stk), s, FALSE)

(***************************************************************************)
(* Builders of client messages.                                            *)
(***************************************************************************)
Nuls(n) == [i \in 1..n |-> 0]

append(buf, msg, nulls) == buf \o msg \o Nuls(nulls)

\* the literals "user" and "database"
UserStr == <<117, 115, 101, 114>>

DatabaseStr == <<100, 97, 116, 97, 98, 97, 115, 101>>

startup_msg(user, database) ==
    LET db == IF database = <<>> THEN user ELSE database
        msg == append(append(append(append(<<0, 0, 0, 0, 0, 3, 0, 0>>, UserStr, 1), user, 1), DatabaseStr, 1), db, 2)
    IN  BE32(Len(msg)) \o SubSeq(msg, 5, Len(msg))

\* a CancelRequest with the secret key before the process id
cancel_msg_key_first(p, k) == BE32(16) \o BE16(1234) \o BE16(5678) \o BE32(k) \o BE32(p)

cancel_msg(p, k) == BE32(16) \o BE16(1234) \o BE16(5678) \o BE32(p) \o BE32(k)

\* a Query whose length leaves out the terminating NUL
query_msg_short_length(request) == append(<<81>> \o BE32(Len(request) + 4), request, 1)

query_msg(request) == append(<<81>> \o BE32(Len(request) + 5), request, 1)

terminate_msg == <<88, 0, 0, 0, 4>>

sync_msg == <<83, 0, 0, 0, 4>>

flush_msg == <<72, 0, 0, 0, 4>>

copy_done_msg == <<99, 0, 0, 0, 4>>

copy_fail_msg(err_msg) == append(<<102>> \o BE32(Len(err_msg) + 5), err_msg, 1)

copy_data_msg(data) == append(<<100>> \o BE32(Len(data) + 5), data, 1)

(***************************************************************************)
(* The server's messages: a tag and a payload, laid out as the protocol    *)
(* lays them out.                                                          *)
(***************************************************************************)
Msg(code, buf) == [code |-> code, length |-> Len(buf) + 4, buf |-> buf]

RECURSIVE FieldList(_)
\* fields, each a tag byte and a NUL-terminated value, then a zero tag
FieldList(fields) == IF fields = <<>> THEN <<0>> ELSE <<fields[1][1]>> \o fields[1][2] \o <<0>> \o FieldList(Tail(fields))

\* two NUL-terminated strings
ParameterStatus(name, value) == Msg("S", name \o <<0>> \o value \o <<0>>)

BackendKeyData(p, k) == Msg("K", BE32(p) \o BE32(k))

Authentication(code) == Msg("R", BE32(code))

ReadyForQuery(status) == Msg("Z", <<status>>)

\* a column name, then the 18 bytes of its descriptor
FieldDesc(name, fd) == name \o <<0>> \o BE32(fd.table_oid) \o BE16(fd.column_no) \o BE32(fd.data_type) \o BE16(fd.type_size) \o BE32(fd.type_modf) \o BE16(fd.frmt_code)

RECURSIVE FieldDescs(_)
FieldDescs(fields) == IF fields = <<>> THEN <<>> ELSE FieldDesc(fields[1][1], fields[1][2]) \o FieldDescs(Tail(fields))

RowDescription(fields) == Msg("T", BE16(Len(fields)) \o FieldDescs(fields))

(***************************************************************************)
(* The inputs the model draws from.                                        *)
(***************************************************************************)
Severity == <<87>>

MessageText == <<120>>

NoticeFields == <<<<chS, Severity>>, <<chM, MessageText>>>>

ParNames == {<<112>>}

ParValues == {<<49>>, <<50>>}

\* the key data of the server process
KeyData == [pid |-> 1234, skey |-> 5678]

KeyPid == KeyData.pid

KeySecret == KeyData.skey

OneField == <<<<<<99>>, [table_oid |-> 0, column_no |-> 0, data_type |-> 23, type_size |-> 4, type_modf |-> 0, frmt_code |-> 0]>>>>

TwoFields == <<<<<<97>>, [table_oid |-> 1, column_no |-> 1, data_type |-> 25, type_size |-> 65535, type_modf |-> 0, frmt_code |-> 0]>>, <<<<98>>, [table_oid |-> 1, column_no |-> 2, data_type |-> 17, type_size |-> 65535, type_modf |-> 0, frmt_code |-> 1]>>>>

FieldLists == {OneField, TwoFields}

StatusBytes == {chI, chT, chE, 88}

AuthCodes == {0, 5}

Users == {<<97>>}

Databases == {<<>>}

Requests == {<<59>>}

CopyInputs == {<<97>>}

\* the strings over two characters, the empty one included
Chars == {97, 59}

Strings == UNION {[1..n -> Chars] : n \in 0..MaxLen}

MsgsReplies == {Msg("G", <<0, 0, 0>>), ReadyForQuery(chI)}

\* a field list with severity and message
Notice == FieldList(NoticeFields)

\* a field list that renders as the literal of EmptyQueryResponse
PlainNotice == FieldList(<<<<chS, EmptyRequestStr>>>>)

DataRow == <<0, 1, 0, 0, 0, 1, 49>>

CopyRow == <<97, 10>>

\* the messages of a startup
StartupMsgs == {Authentication(c) : c \in AuthCodes} \cup {ParameterStatus(n, v) : n \in ParNames, v \in ParValues} \cup {BackendKeyData(KeyPid, KeySecret)} \cup {ReadyForQuery(b) : b \in StatusBytes} \cup {Msg("N", Notice), Msg("E", Notice)}

\* the messages of a query
QueryMsgs == {RowDescription(OneField), Msg("D", DataRow), Msg("C", <<83, 0>>), Msg("G", <<0, 0, 0>>), Msg("H", <<0, 0, 0>>), Msg("d", CopyRow), Msg("c", <<>>), Authentication(0), ReadyForQuery(chI)}

\* rows and notifications that differ, and the messages that clear the rows
FifoMsgs == {Msg("D", DataRow), Msg("d", CopyRow), Msg("N", Notice), Msg("C", <<83, 0>>), Msg("H", <<0, 0, 0>>), ReadyForQuery(chI)} \cup {RowDescription(fields) : fields \in FieldLists}

OtherCopyRow == <<98, 10>>

\* the messages of a startup and of a COPY TO STDOUT, in text and in binary
CopyOutMsgs == {Authentication(0), ReadyForQuery(chI), Msg("H", <<0, 0, 0>>), Msg("H", <<1, 0, 0>>), Msg("d", CopyRow), Msg("d", OtherCopyRow), Msg("c", <<>>), Msg("C", <<83, 0>>)}

\* field lists with a severity and a message: in the order the server
\* sends them, in the other order, and with another field between them
NoticeLists == {<<<<chS, Severity>>, <<chM, MessageText>>>>, <<<<chM, MessageText>>, <<chS, Severity>>>>, <<<<chS, Severity>>, <<67, <<52>>>>, <<chM, MessageText>>>>}

NoticeTags == {"E", "N", "A"}

\* the messages with these field lists and with the empty field list
NoticeMsgs == {Msg(code, FieldList(fields)) : code \in NoticeTags, fields \in NoticeLists \cup {<<>>}} \cup {Authentication(0), ReadyForQuery(chI)}

\* every tag, with payloads that differ as little as the tags allow
AllTags == {Msg("A", PlainNotice), Msg("N", PlainNotice), Msg("E", PlainNotice), Msg("C", EmptyRequestStr), Msg("I", <<>>), RowDescription(OneField), Msg("D", DataRow), Msg("d", DataRow), Msg("c", <<>>), Msg("G", <<0, 0, 0>>), Msg("H", <<0, 0, 0>>), Msg("?", <<1, 2>>), Authentication(0), Authentication(5), ParameterStatus(<<112>>, <<49>>), BackendKeyData(KeyPid, KeySecret), ReadyForQuery(chI), ReadyForQuery(88)}

(***************************************************************************)
(* The state after construction.                                           *)
(***************************************************************************)
Init ==
    /\ socket = "closed"
    /\ state = "not_connected"
    /\ ts = "idle"
    /\ pid = 0
    /\ skey = 0
    /\ buf_fmt = "none"
    /\ notifications = <<>>
    /\ row_queue = <<>>
    /\ field_map = <<>>
    /\ pars = {}
    /\ stack = <<>>
    /\ call = "none"
    /\ outcome = "none"
    /\ rx = <<>>
    /\ sent = <<>>
    /\ sent_other = <<>>
    /\ result = <<>>
    /\ error = NoError
    /\ unread = 0

(***************************************************************************)
(* The API calls.  A call starts when no call is in progress.              *)
(***************************************************************************)
Idle == stack = <<>>

session_vars == <<state, ts, pid, skey, buf_fmt, notifications, row_queue, field_map, pars>>

\* the call c ends at once: it wrote msgs to the socket and threw what, or
\* returned the value res
EndsWith(c, msgs, what, res) ==
    /\ call' = c
    /\ outcome' = IF what # NoError THEN "threw" ELSE "returned"
    /\ stack' = <<>>
    /\ rx' = <<>>
    /\ sent' = msgs
    /\ sent_other' = <<>>
    /\ result' = IF what # NoError THEN <<>> ELSE res
    /\ error' = what
    /\ unread' = unread

\* the same, of a call that returns void
Ends(c, msgs, what) == EndsWith(c, msgs, what, <<>>)

\* the call c wrote msgs and waits in get_reply() with the frames stk
Waits(c, msgs, stk) ==
    /\ call' = c
    /\ outcome' = "running"
    /\ stack' = stk
    /\ rx' = <<>>
    /\ sent' = msgs
    /\ sent_other' = <<>>
    /\ result' = <<>>
    /\ error' = NoError
    /\ unread' = unread

\* asio::write on the session's socket throws unless it is connected
can_send == socket = "connected"

\* a call that only sends one message
send_only(c, msg) ==
    /\ Idle
    /\ Ends(c, IF can_send THEN <<msg>> ELSE <<>>, IF can_send THEN NoError ELSE AsioError)
    /\ UNCHANGED <<socket, session_vars>>

\* cleanup(): what it wrote, the socket after it, whether terminate() threw
cleanup ==
    CASE socket = "closed" -> [sent |-> <<>>, socket |-> "closed", thrown |-> FALSE]
      [] socket = "connected" -> [sent |-> <<terminate_msg>>, socket |-> "closed", thrown |-> FALSE]
      [] socket = "open" -> [sent |-> <<>>, socket |-> "open", thrown |-> TRUE]

\* connect_local: ok says whether socket.connect(endpoint) succeeds
connect_local(ok) ==
    /\ Idle
    /\ LET c == cleanup
       IN  /\ Ends("connect_local", c.sent, IF c.thrown \/ ~ok THEN AsioError ELSE NoError)
           /\ socket' = IF c.thrown THEN c.socket ELSE IF ok THEN "connected" ELSE "open"
           /\ state' = IF ~c.thrown /\ ok THEN "not_started" ELSE state
    /\ UNCHANGED <<ts, pid, skey, buf_fmt, notifications, row_queue, field_map, pars>>

\* connect_tcp: res is "unresolved" (resolve throws), "refused" (no
\* endpoint connects) or "connected"
connect_tcp(res) ==
    /\ Idle
    /\ LET c == cleanup
       IN  /\ Ends("connect_tcp", c.sent, IF c.thrown \/ res = "unresolved" THEN AsioError ELSE IF res = "refused" THEN RuntimeError("Could not open socket") ELSE NoError)
           /\ socket' = IF c.thrown THEN c.socket
                        ELSE CASE res = "unresolved" -> "closed"
                               [] res = "refused" -> "open"
                               [] res = "connected" -> "connected"
           /\ state' = IF ~c.thrown /\ res = "connected" THEN "not_started" ELSE state
    /\ UNCHANGED <<ts, pid, skey, buf_fmt, notifications, row_queue, field_map, pars>>

\* a startup that keeps the parameters
pars_kept(p) == p

\* pars.clear()
pars_clear(p) == {}

startup(user, database) ==
    /\ Idle
    /\ pars' = pars_clear(pars)
    /\ IF state # "not_started" \/ ~can_send
       THEN Ends("startup", <<>>, IF state # "not_started" THEN RuntimeError("Reset connection before sending startup request") ELSE AsioError)
       ELSE Waits("startup", <<startup_msg(user, database)>>, <<"startup">>)
    /\ UNCHANGED <<socket, state, ts, pid, skey, buf_fmt, notifications, row_queue, field_map>>

query(request) ==
    /\ Idle
    /\ state' = "in_query"
    /\ IF ~can_send
       THEN Ends("query", <<>>, AsioError)
       ELSE IF handle_replies_reads([Sess EXCEPT !.state = "in_query"])
            THEN Waits("query", <<query_msg(request)>>, <<"query">>)
            ELSE Ends("query", <<query_msg(request)>>, NoError)
    /\ UNCHANGED <<socket, ts, pid, skey, buf_fmt, notifications, row_queue, field_map, pars>>

terminate == send_only("terminate", terminate_msg)

sync == send_only("sync", sync_msg)

flush == send_only("flush", flush_msg)

copy_done == send_only("copy_done", copy_done_msg)

copy_fail(err_msg) == send_only("copy_fail", copy_fail_msg(err_msg))

\* a copy_data that does not test the state
copy_data_any_state(data) ==
    /\ Idle
    /\ Ends("copy_data", IF can_send THEN <<copy_data_msg(data)>> ELSE <<>>, IF can_send THEN NoError ELSE AsioError)
    /\ UNCHANGED <<socket, session_vars>>

copy_data(data) ==
    /\ Idle
    /\ IF state # "copy_in" \/ ~can_send
       THEN Ends("copy_data", <<>>, IF state # "copy_in" THEN RuntimeError("Attempt to copy data when not in copy in mode") ELSE AsioError)
       ELSE Ends("copy_data", <<copy_data_msg(data)>>, NoError)
    /\ UNCHANGED <<socket, session_vars>>

\* a cancel that drops the rows of the query it cancels
cancel_drops_rows(ok) ==
    /\ Idle
    /\ call' = "cancel"
    /\ outcome' = IF can_send /\ ok THEN "returned" ELSE "threw"
    /\ sent_other' = IF can_send /\ ok THEN cancel_msg(pid, skey) ELSE <<>>
    /\ row_queue' = <<>>
    /\ stack' = <<>>
    /\ rx' = <<>>
    /\ sent' = <<>>
    /\ result' = <<>>
    /\ error' = IF can_send /\ ok THEN NoError ELSE AsioError
    /\ unread' = unread
    /\ UNCHANGED <<socket, state, ts, pid, skey, buf_fmt, notifications, field_map, pars>>

\* cancel: ok says whether the new socket connects
cancel(ok) ==
    /\ Idle
    /\ call' = "cancel"
    /\ outcome' = IF can_send /\ ok THEN "returned" ELSE "threw"
    /\ sent_other' = IF can_send /\ ok THEN cancel_msg(pid, skey) ELSE <<>>
    /\ stack' = <<>>
    /\ rx' = <<>>
    /\ sent' = <<>>
    /\ result' = <<>>
    /\ error' = IF can_send /\ ok THEN NoError ELSE AsioError
    /\ unread' = unread
    /\ UNCHANGED <<socket, session_vars>>

empty_row_queue == RuntimeError("Attempt to access empty row queue")

get_raw_row(dequeue) ==
    /\ Idle
    /\ EndsWith("get_raw_row", <<>>, IF row_queue = <<>> THEN empty_row_queue ELSE NoError, IF row_queue = <<>> THEN <<>> ELSE <<Head(row_queue)>>)
    /\ row_queue' = IF row_queue # <<>> /\ dequeue THEN Tail(row_queue) ELSE row_queue
    /\ UNCHANGED <<socket, state, ts, pid, skey, buf_fmt, notifications, field_map, pars>>

\* get_strings: row_to_strings(get_raw_row(dequeue)).  The row has left the
\* queue when row_to_strings runs.  When row_to_strings reads outside the
\* row its behaviour is undefined: garbage_throws says whether the call
\* then throws or returns bytes that are not the row's.
get_strings(dequeue, garbage_throws) ==
    /\ Idle
    /\ IF row_queue = <<>>
       THEN Ends("get_strings", <<>>, empty_row_queue)
       ELSE LET r == row_to_strings(buf_fmt, field_map, Head(row_queue))
            IN  CASE r.kind = "strings" -> EndsWith("get_strings", <<>>, NoError, <<r.res>>)
                  [] r.kind = "throws" -> Ends("get_strings", <<>>, r.what)
                  [] r.kind = "undefined" -> EndsWith("get_strings", <<>>, IF garbage_throws THEN <<"undefined">> ELSE NoError, <<"garbage">>)
    /\ row_queue' = IF row_queue # <<>> /\ dequeue THEN Tail(row_queue) ELSE row_queue
    /\ UNCHANGED <<socket, state, ts, pid, skey, buf_fmt, notifications, field_map, pars>>

get_notification(dequeue) ==
    /\ Idle
    /\ EndsWith("get_notification", <<>>, IF notifications = <<>> THEN RuntimeError("Attempt to access empty notification queue") ELSE NoError, IF notifications = <<>> THEN <<>> ELSE <<Head(notifications)>>)
    /\ notifications' = IF notifications # <<>> /\ dequeue THEN Tail(notifications) ELSE notifications
    /\ UNCHANGED <<socket, state, ts, pid, skey, buf_fmt, row_queue, field_map, pars>>

clear_row_queue_call ==
    /\ Idle
    /\ Ends("clear_row_queue", <<>>, NoError)
    /\ row_queue' = <<>>
    /\ UNCHANGED <<socket, state, ts, pid, skey, buf_fmt, notifications, field_map, pars>>

clear_notification_queue ==
    /\ Idle
    /\ Ends("clear_notification_queue", <<>>, NoError)
    /\ notifications' = <<>>
    /\ UNCHANGED <<socket, state, ts, pid, skey, buf_fmt, row_queue, field_map, pars>>

\* get_parameter: pars[key] inserts an empty value for a key that is not set.
\* The two arguments of make_pair are evaluated in an order the build
\* chooses: index_first says that pars[key] comes before pars.find(key).
get_parameter(key, index_first) ==
    /\ Idle
    /\ LET is_set == \E kv \in pars : kv[1] = key
           value == IF is_set THEN (CHOOSE kv \in pars : kv[1] = key)[2] ELSE <<>>
       IN  /\ EndsWith("get_parameter", <<>>, NoError, <<<<value, is_set \/ index_first>>>>)
           /\ pars' = IF is_set THEN pars ELSE pars \cup {<<key, <<>>>>}
    /\ UNCHANGED <<socket, state, ts, pid, skey, buf_fmt, notifications, row_queue, field_map>>

(***************************************************************************)
(* The steps of a call that waits in get_reply().                          *)
(***************************************************************************)
\* the server's message msg arrives: get_reply() returns it and
\* process_reply(msg) runs up to the next get_reply() or the end of the call
Deliver(msg, max_rx) ==
    /\ ~Idle
    /\ Len(rx) < max_rx
    /\ LET r == process_reply(Sess, msg)
           k == IF r.thrown THEN [stack |-> <<>>, thrown |-> TRUE, what |-> r.what]
                ELSE IF msg.code = "R" THEN [stack |-> Append(stack, "auth"), thrown |-> FALSE, what |-> NoError]
                ELSE return_to(stack, r.s, is_error(msg))
       IN  /\ Len(r.s.notifications) <= MaxNotifications
           /\ Len(r.s.row_queue) <= MaxRows
           /\ state' = r.s.state
           /\ ts' = r.s.ts
           /\ pid' = r.s.pid
           /\ skey' = r.s.skey
           /\ buf_fmt' = r.s.buf_fmt
           /\ notifications' = r.s.notifications
           /\ row_queue' = r.s.row_queue
           /\ field_map' = r.s.field_map
           /\ pars' = r.s.pars
           /\ stack' = k.stack
           /\ outcome' = IF k.thrown THEN "threw" ELSE IF k.stack = <<>> THEN "returned" ELSE "running"
           /\ result' = IF ~k.thrown /\ k.stack = <<>> /\ call = "startup" THEN <<ready(r.s)>> ELSE <<>>
           /\ error' = k.what
    /\ unread' = unread_bytes(msg) - payload_read(msg)
    /\ rx' = Append(rx, msg)
    /\ UNCHANGED <<socket, call, sent, sent_other>>

\* the connection is lost: asio::read throws, in get_reply() or, when
\* in_row_description, in the read_remaining() of case 'T', which has
\* cleared the field map by then
ReadFail(in_row_description) ==
    /\ ~Idle
    /\ stack' = <<>>
    /\ outcome' = "threw"
    /\ field_map' = IF in_row_description THEN <<>> ELSE field_map
    /\ error' = AsioError
    /\ UNCHANGED <<socket, state, ts, pid, skey, buf_fmt, notifications, row_queue, pars, call, rx, sent, sent_other, result, unread>>

\* the steps of the caller
CallOn(users, databases, requests, copy_inputs) ==
    \/ \E ok \in BOOLEAN : connect_local(ok)
    \/ \E res \in {"unresolved", "refused", "connected"} : connect_tcp(res)
    \/ \E user \in users, database \in databases : startup(user, database)
    \/ \E request \in requests : query(request)
    \/ terminate
    \/ sync
    \/ flush
    \/ copy_done
    \/ \E err_msg \in copy_inputs : copy_fail(err_msg)
    \/ \E data \in copy_inputs : copy_data(data)
    \/ \E ok \in BOOLEAN : cancel(ok)
    \/ \E dequeue \in BOOLEAN : get_raw_row(dequeue)
    \/ \E dequeue \in BOOLEAN : get_notification(dequeue)
    \/ clear_row_queue_call
    \/ clear_notification_queue
    \/ \E dequeue \in BOOLEAN, garbage_throws \in BOOLEAN : get_strings(dequeue, garbage_throws)
    \/ \E key \in ParNames, index_first \in BOOLEAN : get_parameter(key, index_first)

Call == CallOn(Users, Databases, Requests, CopyInputs)

\* the server answers with any tag
Next ==
    \/ Call
    \/ \E msg \in AllTags : Deliver(msg, MaxRx)
    \/ \E in_row_description \in BOOLEAN : ReadFail(in_row_description)

Spec == Init /\ [][Next]_vars

\* the server answers with the messages of a startup
NextStartup ==
    \/ Call
    \/ \E msg \in StartupMsgs : Deliver(msg, MaxRxStartup)
    \/ \E in_row_description \in BOOLEAN : ReadFail(in_row_description)

SpecStartup == Init /\ [][NextStartup]_vars

\* the server answers with the messages of a query
NextQuery ==
    \/ Call
    \/ \E msg \in QueryMsgs : Deliver(msg, MaxRxQuery)
    \/ \E in_row_description \in BOOLEAN : ReadFail(in_row_description)

SpecQuery == Init /\ [][NextQuery]_vars

\* the server answers with rows, notifications and row descriptions
NextFifo ==
    \/ Call
    \/ \E msg \in FifoMsgs : Deliver(msg, MaxRxFifo)
    \/ \E in_row_description \in BOOLEAN : ReadFail(in_row_description)

SpecFifo == Init /\ [][NextFifo]_vars

\* the server answers with notices, errors and notifications
NextNotice ==
    \/ Call
    \/ \E msg \in NoticeMsgs : Deliver(msg, MaxRx)
    \/ \E in_row_description \in BOOLEAN : ReadFail(in_row_description)

SpecNotice == Init /\ [][NextNotice]_vars

\* what a server that follows the protocol sends next: to a startup
\* AuthenticationOk and ReadyForQuery, to a query CopyOutResponse, CopyData
\* messages, CopyDone, CommandComplete and ReadyForQuery
server_follows(msg) ==
    IF call = "startup"
    THEN IF rx = <<>> THEN msg.code = "R" ELSE msg.code = "Z"
    ELSE CASE rx = <<>> -> msg.code = "H"
           [] rx[Len(rx)].code \in {"H", "d"} -> msg.code \in {"d", "c"}
           [] rx[Len(rx)].code = "c" -> msg.code = "C"
           [] rx[Len(rx)].code = "C" -> msg.code = "Z"
           [] OTHER -> FALSE

\* the server answers a query as it answers a COPY TO STDOUT
NextCopyOut ==
    \/ Call
    \/ \E msg \in CopyOutMsgs : server_follows(msg) /\ Deliver(msg, MaxRxCopyOut)
    \/ \E in_row_description \in BOOLEAN : ReadFail(in_row_description)

SpecCopyOut == Init /\ [][NextCopyOut]_vars

\* the caller passes every string of Strings; the server answers with a
\* CopyInResponse or a ReadyForQuery
NextMsgs ==
    \/ CallOn(Strings, Strings, Strings, Strings)
    \/ \E msg \in MsgsReplies : Deliver(msg, MaxRx)
    \/ \E in_row_description \in BOOLEAN : ReadFail(in_row_description)

SpecMsgs == Init /\ [][NextMsgs]_vars

(***************************************************************************)
(* Properties.                                                             *)
(***************************************************************************)
LastRx == rx[Len(rx)]

HasRead(code) == \E i \in 1..Len(rx) : rx[i].code = code

\* C1: when the server answers a query with CopyInResponse, query() sets
\* the state to copy_in and returns at that point, reading nothing after
\* the 'G'.
C1_QueryReturnsAtCopyIn == (call = "query" /\ HasRead("G")) => (LastRx.code = "G" /\ state = "copy_in" /\ outcome = "returned")

\* C2: a query() that returns without throwing leaves the state
\* ready_for_query or copy_in.
C2_QueryEndsReadyOrCopyIn == (call = "query" /\ outcome = "returned") => state \in {"ready_for_query", "copy_in"}

\* a query that read a CommandComplete and then a ReadyForQuery has returned
C2_Witness == call = "query" /\ outcome = "returned" /\ Len(rx) >= 2 /\ rx[Len(rx) - 1].code = "C" /\ LastRx.code = "Z"

\* C3: query() called in a state other than ready_for_query sends no
\* Query message and leaves the state as it was.
C3_QueryOnlyWhenReady == [][\A request \in Requests : (query(request) /\ state # "ready_for_query") => (sent' = <<>> /\ state' = state)]_vars

\* C4: whenever startup() returns without throwing, the state is
\* ready_for_query and the last message it read is the ReadyForQuery.
C4_StartupEndsReady == (call = "startup" /\ outcome = "returned") => (state = "ready_for_query" /\ rx # <<>> /\ LastRx.code = "Z")

\* C5: startup() called when the state is not not_started throws, sends
\* nothing and changes nothing of the session.
C5_StartupWrongStateNoEffect == [][\A user \in Users, database \in Databases : (startup(user, database) /\ state # "not_started") => (outcome' = "threw" /\ sent' = <<>> /\ UNCHANGED session_vars)]_vars

\* the replies of the startup in rx are AuthenticationOk, ParameterStatus
\* messages, one BackendKeyData and a ReadyForQuery
StartupReplies ==
    /\ Len(rx) >= 3
    /\ rx[1] = Authentication(0)
    /\ \A i \in 2..(Len(rx) - 2) : rx[i].code = "S"
    /\ rx[Len(rx) - 1].code = "K"
    /\ LastRx.code = "Z"

\* the pairs of the ParameterStatus messages in rx, the last value of a name
ParsReceived == {nv \in ParNames \X ParValues : \E i \in 1..Len(rx) : rx[i] = ParameterStatus(nv[1], nv[2]) /\ \A j \in (i + 1)..Len(rx) : \A v \in ParValues : rx[j] # ParameterStatus(nv[1], v)}

StatusOf(b) == CASE b = chI -> "idle" [] b = chT -> "active" [] b = chE -> "error" [] OTHER -> "invalid"

\* C6: after a startup() that returned and whose replies were
\* AuthenticationOk, ParameterStatus messages, BackendKeyData and
\* ReadyForQuery, the parameter map holds exactly the pairs received in
\* this startup, pid and skey are the values of the BackendKeyData, the
\* transaction status is the one the ReadyForQuery names and the state is
\* ready_for_query.
C6_StartupResult ==
    (call = "startup" /\ outcome = "returned" /\ StartupReplies) =>
        /\ pars = ParsReceived
        /\ rx[Len(rx) - 1] = BackendKeyData(pid, skey)
        /\ \E b \in StatusBytes : LastRx = ReadyForQuery(b) /\ ts = StatusOf(b)
        /\ state = "ready_for_query"

\* such a startup has returned: it read two values of one parameter, and
\* the map holds the second
C6_Witness == call = "startup" /\ outcome = "returned" /\ StartupReplies /\ Len(rx) = 5 /\ rx[2] = ParameterStatus(<<112>>, <<49>>) /\ rx[3] = ParameterStatus(<<112>>, <<50>>) /\ pars = {<<(<<112>>), (<<50>>)>>} /\ pid = KeyPid /\ skey = KeySecret /\ ts = "active"

\* C7: an ErrorResponse never makes the call throw: its string is
\* appended to the notification queue and the call goes on.
C7_ErrorResponseNeverThrows == [][\A msg \in StartupMsgs : (msg.code = "E" /\ Deliver(msg, MaxRxStartup)) => (outcome' # "threw" /\ notifications' = Append(notifications, Severity \o <<chColon, chSpace>> \o MessageText))]_vars

\* C8: an Authentication message with a sub-code other than 0 makes
\* startup() throw, with a state other than ready_for_query, and the call
\* reads nothing after it.
C8_AuthRefused == \A i \in 1..Len(rx) : (call = "startup" /\ rx[i].code = "R" /\ rx[i] # Authentication(0)) => (i = Len(rx) /\ outcome = "threw" /\ stack = <<>> /\ state # "ready_for_query")

\* a startup read AuthenticationOk and then an Authentication with sub-code 5
C8_Witness == call = "startup" /\ Len(rx) = 2 /\ rx[1] = Authentication(0) /\ rx[2] = Authentication(5) /\ outcome = "threw"

\* C9: a step that changes the state to ready_for_query is the
\* processing of a ReadyForQuery message.
C9_ReadyOnlyByZ == [][(state # "ready_for_query" /\ state' = "ready_for_query") => (\E msg \in AllTags : msg.code = "Z" /\ Deliver(msg, MaxRx))]_vars

\* a query became ready after a CommandComplete and a ReadyForQuery
C9_Witness == call = "query" /\ state = "ready_for_query" /\ Len(rx) = 2 /\ rx[1].code = "C" /\ rx[2].code = "Z"

\* C10: a ReadyForQuery with status 'I', 'T' or 'E' sets the transaction
\* status to idle, active or error and the state to ready_for_query; with
\* another status byte the call throws and neither is changed.
C10_ReadyForQueryStatus == [][\A b \in StatusBytes : Deliver(ReadyForQuery(b), MaxRxStartup) => IF b \in {chI, chT, chE} THEN (ts' = StatusOf(b) /\ state' = "ready_for_query" /\ outcome' # "threw") ELSE (outcome' = "threw" /\ ts' = ts /\ state' = state)]_vars

\* a call threw on a ReadyForQuery with an invalid status, in a session whose
\* transaction status an earlier ReadyForQuery had set to active
C10_Witness == rx # <<>> /\ LastRx = ReadyForQuery(88) /\ outcome = "threw" /\ ts = "active" /\ state # "ready_for_query"

(***************************************************************************)
(* The queues.                                                             *)
(***************************************************************************)
RECURSIVE RowsIn(_)
\* the payloads of the DataRow and CopyData messages of msgs, in order
RowsIn(msgs) == IF msgs = <<>> THEN <<>> ELSE (IF msgs[1].code \in {"D", "d"} THEN <<msgs[1].buf>> ELSE <<>>) \o RowsIn(Tail(msgs))

\* the string a message of FifoMsgs stands for in the notification queue
NoteOf(msg) ==
    CASE msg.code = "C" -> <<msg.buf>>
      [] msg.code = "N" -> <<Severity \o <<chColon, chSpace>> \o MessageText>>
      [] OTHER -> <<>>

RECURSIVE NotesIn(_)
NotesIn(msgs) == IF msgs = <<>> THEN <<>> ELSE NoteOf(msgs[1]) \o NotesIn(Tail(msgs))

\* the position in rx of the last message with a tag of codes, or 0
LastOf(codes) == IF \E i \in 1..Len(rx) : rx[i].code \in codes THEN CHOOSE i \in 1..Len(rx) : rx[i].code \in codes /\ \A j \in (i + 1)..Len(rx) : rx[j].code \notin codes ELSE 0

\* the rows the call has read since the last message with a tag of codes
RowsSince(codes) == RowsIn(SubSeq(rx, LastOf(codes) + 1, Len(rx)))

IsSuffix(a, q) == Len(a) <= Len(q) /\ SubSeq(q, Len(q) - Len(a) + 1, Len(q)) = a

\* the queues end with what the call has read, in the order it read it
ArrivalOrder ==
    call \in {"startup", "query"} =>
        /\ IsSuffix(RowsSince({"T", "H"}), row_queue)
        /\ LastOf({"T", "H"}) > 0 => row_queue = RowsSince({"T", "H"})
        /\ IsSuffix(NotesIn(rx), notifications)

\* get_raw_row and get_notification return the front of the queue, and
\* remove it when asked to
FrontFirst ==
    /\ \A dequeue \in BOOLEAN : (row_queue # <<>> /\ get_raw_row(dequeue)) => (result' = <<Head(row_queue)>> /\ row_queue' = IF dequeue THEN Tail(row_queue) ELSE row_queue)
    /\ \A dequeue \in BOOLEAN : (notifications # <<>> /\ get_notification(dequeue)) => (result' = <<Head(notifications)>> /\ notifications' = IF dequeue THEN Tail(notifications) ELSE notifications)

\* C11: the row queue and the notification queue are FIFOs: the rows read
\* with no RowDescription or CopyOutResponse between them are in the queue
\* in the order of arrival, and so are the notification strings;
\* get_raw_row() and get_notification() return the oldest entry.
C11_QueuesAreFifo == []ArrivalOrder /\ [][FrontFirst]_vars

\* get_raw_row() returned the first of two rows that differ, the second is
\* still in the queue
C11_Witness == call = "get_raw_row" /\ outcome = "returned" /\ result = <<DataRow>> /\ row_queue = <<CopyRow>> /\ Len(notifications) = 2 /\ notifications[1] # notifications[2]

\* C12: a RowDescription leaves the row queue empty, sets the buffer format
\* to query, makes the field map the fields of this message in their
\* order, and leaves the state as it was.
C12_RowDescriptionResets == [][\A fields \in FieldLists : Deliver(RowDescription(fields), MaxRxFifo) => (row_queue' = <<>> /\ buf_fmt' = "query" /\ field_map' = fields /\ state' = state)]_vars

\* a second RowDescription, with other fields, came after a row
C12_Witness == call = "query" /\ rx = <<RowDescription(OneField), Msg("D", DataRow), RowDescription(TwoFields)>> /\ field_map = TwoFields /\ row_queue = <<>> /\ buf_fmt = "query"

\* C13: the rows in the queue were all read after the last message that
\* set the buffer format (RowDescription, CopyInResponse, CopyOutResponse).
C13_RowsUnderOneFormat == (call \in {"startup", "query"} /\ LastOf({"T", "G", "H"}) > 0) => row_queue = RowsSince({"T", "G", "H"})

(***************************************************************************)
(* cancel, connect and terminate.                                          *)
(***************************************************************************)
\* C14: cancel(), whether it succeeds or fails, leaves the state, the
\* transaction status, the buffer format, both queues, the field map and the
\* parameter map as they were.
C14_CancelIsolation == [][\A ok \in BOOLEAN : cancel(ok) => UNCHANGED <<state, ts, buf_fmt, row_queue, notifications, field_map, pars>>]_vars

\* a cancel returned in a session that is ready and holds a row, a
\* notification, fields and a parameter
C14_Witness == call = "cancel" /\ outcome = "returned" /\ state = "ready_for_query" /\ row_queue # <<>> /\ notifications # <<>> /\ field_map # <<>> /\ pars # {}

\* C15: cancel() writes nothing to the session's socket; when it succeeds it
\* has written to a new socket one CancelRequest of 16 bytes: the length 16,
\* the code 80877102, the pid and the secret key, each 4 bytes big-endian.
C15_CancelRequest == call = "cancel" => (sent = <<>> /\ (outcome = "returned" => (Len(sent_other) = 16 /\ sent_other = BE32(16) \o BE32(80877102) \o BE32(pid) \o BE32(skey))))

\* a cancel with the key of a BackendKeyData, byte by byte
C15_Witness == call = "cancel" /\ outcome = "returned" /\ pid = KeyPid /\ skey = KeySecret /\ sent_other = <<0, 0, 0, 16, 4, 210, 22, 46, 0, 0, 4, 210, 0, 0, 22, 46>>

\* a connect_local() or connect_tcp() has returned
Connected == call \in {"connect_local", "connect_tcp"} /\ outcome = "returned"

\* C16: after a successful connect_local() or connect_tcp() the parameter
\* map, the field map and both queues are empty, pid and skey are 0 and the
\* state is not_started.
C16_ConnectResets == Connected => (pars = {} /\ field_map = <<>> /\ row_queue = <<>> /\ notifications = <<>> /\ pid = 0 /\ skey = 0 /\ state = "not_started")

\* C17: pid or skey is not 0 only if a BackendKeyData has been read since
\* the last successful connect.  Right after a successful connect nothing
\* has been read on the new connection, so both are 0 there.
C17_KeyOfThisConnection == Connected => (pid = 0 /\ skey = 0)

\* C18: a terminate() that returns has sent one Terminate message ('X',
\* length 4) and leaves the state not_connected.
C18_TerminateDisconnects == (call = "terminate" /\ outcome = "returned") => (sent = <<(<<88, 0, 0, 0, 4>>)>> /\ state = "not_connected")

\* a public call other than query() that goes on to read the server's replies
DrivesReplies == Call /\ call' # "query" /\ stack' # <<>>

\* C19: in state copy_in, after copy_done() or copy_fail() has returned,
\* the caller has a public call other than query() that reads the server's
\* following replies, so that the session can reach ready_for_query
\* without a new Query message.
C19_CopyInCanBeDriven == (Idle /\ state = "copy_in" /\ call \in {"copy_done", "copy_fail"} /\ outcome = "returned") => ENABLED DrivesReplies

\* the call threw, sent nothing and left the session as it was
FailsWithoutEffect == outcome' = "threw" /\ sent' = <<>> /\ sent_other' = <<>> /\ UNCHANGED <<state, ts, buf_fmt, row_queue, notifications, field_map, pars>>

\* C20: copy_data() in a state other than copy_in, and get_raw_row(),
\* get_strings() and get_notification() on an empty queue, throw, send
\* nothing and leave the state, the transaction status, the buffer format,
\* both queues, the field map and the parameter map as they were.
C20_StateErrors ==
    [][/\ \A data \in CopyInputs : (state # "copy_in" /\ copy_data(data)) => FailsWithoutEffect
       /\ \A dequeue \in BOOLEAN : (row_queue = <<>> /\ get_raw_row(dequeue)) => FailsWithoutEffect
       /\ \A dequeue \in BOOLEAN, garbage_throws \in BOOLEAN : (row_queue = <<>> /\ get_strings(dequeue, garbage_throws)) => FailsWithoutEffect
       /\ \A dequeue \in BOOLEAN : (notifications = <<>> /\ get_notification(dequeue)) => FailsWithoutEffect]_vars

\* copy_data() threw on a connected session that is ready, with a
\* notification waiting and no row
C20_Witness == call = "copy_data" /\ outcome = "threw" /\ socket = "connected" /\ state = "ready_for_query" /\ notifications # <<>> /\ row_queue = <<>>

(***************************************************************************)
(* The client's messages.                                                  *)
(***************************************************************************)
\* C21: a copy_data(data) that returns in state copy_in has sent one
\* CopyData message: the tag 'd', the length 4 + Len(data) and the bytes
\* of data, with no byte added; the state is still copy_in.
C21_CopyDataFrame == (call = "copy_data" /\ outcome = "returned") => (state = "copy_in" /\ \E data \in CopyInputs : sent = <<(<<100>> \o BE32(4 + Len(data)) \o data)>>)

\* the length field of the message m, which starts at position at
LengthField(m, at) == FromBE32(SubSeq(m, at, at + 3))

\* C22: in every message the session sends, the 4-byte big-endian length
\* is the number of bytes from the length field to the end of the message:
\* all the bytes but the tag for the tagged messages, all the bytes for
\* the startup message and the CancelRequest.
C22_LengthFields ==
    /\ \A i \in 1..Len(sent) : IF call = "startup" THEN LengthField(sent[i], 1) = Len(sent[i]) ELSE LengthField(sent[i], 2) = Len(sent[i]) - 1
    /\ sent_other # <<>> => LengthField(sent_other, 1) = Len(sent_other)

\* a query of two characters has been sent
C22_Witness == call = "query" /\ sent = <<(<<81, 0, 0, 0, 7, 97, 59, 0>>)>>

(***************************************************************************)
(* Messages the session does not handle, parameters, copy out, notices.    *)
(***************************************************************************)
\* the tags process_reply has a case for
HandledTags == {"A", "C", "c", "D", "d", "E", "G", "H", "I", "K", "N", "R", "S", "T", "Z"}

\* C23: a server message with a tag the session does not handle makes the
\* call throw an error that names the tag, after the length - 4 bytes of
\* its payload have been read; the state, both queues, the field map and
\* the parameter map are as before the message.
C23_UnknownTag == [][\A msg \in AllTags : (msg.code \notin HandledTags /\ Deliver(msg, MaxRx)) => (outcome' = "threw" /\ msg.code \in {error'[i] : i \in 1..Len(error')} /\ unread' = 0 /\ UNCHANGED <<state, notifications, row_queue, field_map, pars>>)]_vars

\* a query that had read a row threw on a message with the tag '?' and a
\* payload of two bytes
C23_Witness == call = "query" /\ outcome = "threw" /\ rx = <<Msg("D", DataRow), Msg("?", <<1, 2>>)>> /\ row_queue # <<>> /\ state = "in_query" /\ error = <<"Cannot handle server message with code", "?">>

\* a ParameterStatus for key is among the messages the call has read
Received(key) == \E nv \in ParsReceived : nv[1] = key

\* C24: get_parameter(key) returns a pair whose second member is true
\* exactly when a ParameterStatus for key has been received since the
\* parameter map was last cleared, and whose first member is then the last
\* value received.  startup() clears the map, so after a startup the
\* messages it read are the ones received since.
\* A get_parameter(key) that answered false is followed, with nothing
\* received in between, by one that answers false again (ParNames has one
\* key).
C24_GetParameterResult ==
    [][\A key \in ParNames, index_first \in BOOLEAN :
        /\ (call = "startup" /\ get_parameter(key, index_first)) => ((result'[1][2] <=> Received(key)) /\ (result'[1][2] => <<key, result'[1][1]>> \in ParsReceived))
        /\ (call = "get_parameter" /\ ~result[1][2] /\ get_parameter(key, index_first)) => ~result'[1][2]]_vars

\* C27: the state is other than not_connected only if the socket is open
\* and connected.
C27_StateNeedsTransport == state # "not_connected" => socket = "connected"

\* C28: get_parameter(key) leaves the parameter map as it was, for a key
\* that is set and for one that is not.
C28_GetParameterPure == [][\A key \in ParNames, index_first \in BOOLEAN : get_parameter(key, index_first) => pars' = pars]_vars

\* the number of CopyData messages the call has read
NData == Cardinality({i \in 1..Len(rx) : rx[i].code = "d"})

\* the call has read a CopyOutResponse, CopyData messages and then the
\* first ones of CopyDone, CommandComplete, ReadyForQuery
CopyOutReplies ==
    /\ rx # <<>>
    /\ rx[1].code = "H"
    /\ Len(rx) <= NData + 4
    /\ \A i \in 2..Len(rx) : rx[i].code = (CASE i <= NData + 1 -> "d" [] i = NData + 2 -> "c" [] i = NData + 3 -> "C" [] OTHER -> "Z")

\* the state after the last of these messages
CopyOutState == CASE LastRx.code \in {"H", "d"} -> "copy_out" [] LastRx.code = "c" -> "copy_done" [] LastRx.code = "C" -> "complete" [] OTHER -> "ready_for_query"

\* C25: while a query reads CopyOutResponse, n CopyData, CopyDone,
\* CommandComplete and ReadyForQuery, the state is copy_out, then
\* copy_done, complete and ready_for_query; the buffer format is copy_text
\* when the first byte of the CopyOutResponse is 0 and copy_binary
\* otherwise; the row queue holds the CopyData payloads read so far, in
\* order, and nothing else; query() returns at the ReadyForQuery.
C25_CopyOut ==
    (call = "query" /\ CopyOutReplies) =>
        /\ state = CopyOutState
        /\ buf_fmt = IF rx[1].buf[1] = 0 THEN "copy_text" ELSE "copy_binary"
        /\ row_queue = RowsIn(rx)
        /\ outcome = "returned" <=> LastRx.code = "Z"

\* a binary copy out of two rows has returned
C25_Witness == call = "query" /\ outcome = "returned" /\ rx = <<Msg("H", <<1, 0, 0>>), Msg("d", CopyRow), Msg("d", OtherCopyRow), Msg("c", <<>>), Msg("C", <<83, 0>>), ReadyForQuery(chI)>> /\ row_queue = <<CopyRow, OtherCopyRow>> /\ buf_fmt = "copy_binary" /\ state = "ready_for_query"

\* C26: an ErrorResponse, NoticeResponse or NotificationResponse whose
\* field list has an 'S' field and an 'M' field, in either order and with
\* other fields between them, appends the one string "<severity>:
\* <message>" to the notification queue; a field list that is only the
\* terminating zero makes no call throw (but for the ErrorResponse that
\* startup() reads after AuthenticationOk).
C26_SeverityAndMessage ==
    [][\A code \in NoticeTags :
        /\ \A fields \in NoticeLists : Deliver(Msg(code, FieldList(fields)), MaxRx) => (notifications' = Append(notifications, Severity \o <<chColon, chSpace>> \o MessageText) /\ unread' = 0)
        /\ (Deliver(Msg(code, FieldList(<<>>)), MaxRx) /\ stack[Len(stack)] # "auth") => outcome' # "threw"]_vars

====
